---- MODULE Spec2Model ----
(***************************************************************************)
(* State machine of the main App component (src/unnamed/part_000, lines    *)
(* 1-541) of "Sistema de Reacciones Quimicas": the React state of App, its *)
(* event handlers, and the handler runs suspended at an await.             *)
(*                                                                         *)
(* A handler is a closure over the state of the render in which the user   *)
(* triggered it: after an await it still reads the values it captured      *)
(* (explanationLevel, reaction, activeElement), while every setter acts on *)
(* the current state.  A run suspended at an await is a frame of inFlight; *)
(* its request is settled by a later step with an outcome chosen by the    *)
(* backend.                                                                *)
(*                                                                         *)
(* Beside it: the selection of the multi-select PeriodicTable component    *)
(* (src/unnamed/part_002), and the pure functions over the static tables   *)
(* (elementsData, PERIODIC_TABLE_LAYOUT, ELECTRON_SHELLS), applied to an   *)
(* argument and leaving the value they return.                             *)
(***************************************************************************)
EXTENDS Integers, Sequences, FiniteSets, TLC

VARIABLES selectedElements, reaction, explanation, isLoading, error,
          explanationLevel, showReaction, activeElement, viewAtomicModel,
          isLoadingExplanation, suggestions, inFlight,
          tableSelectedElements, argument, returned

\* the state of App and its suspended handler runs
appVars == <<selectedElements, reaction, explanation, isLoading, error,
             explanationLevel, showReaction, activeElement, viewAtomicModel,
             isLoadingExplanation, suggestions, inFlight>>

\* the selection of the multi-select PeriodicTable; a call of a pure function
otherVars == <<tableSelectedElements, argument, returned>>

vars == <<appVars, otherVars>>

----------------------------------------------------------------------------
(* Bounds of the model *)

\* elements the backend serves to the periodic table (asynchronous model)
NumElements == 1
\* elements the backend serves to the periodic table (selection model)
NumElementsUI == 6
\* handler runs that may be suspended at an await at the same time
MaxInFlight == 1
\* the same, where the claim is about requests that overlap
MaxRacing == 2
\* cells of the multi-select periodic table the user clicks
NumTableElements == 11

(* Program constants *)

\* "if (prev.length >= 5) return prev // Max 5 elements"
MaxSelected == 5

\* "if (prev.length >= 10) return prev" of the multi-select PeriodicTable
MaxTableSelected == 10

\* JavaScript null, for the state that holds an object or null
Null == [kind |-> "null"]
\* error is null or a non-empty message
NoError == Null

Levels == {"basic", "intermediate", "advanced"}
\* the level buttons the user presses
LevelsClicked == {"basic"}

----------------------------------------------------------------------------
(* The backend's data: elements, reactions, validation results *)

SymbolNames == <<"H", "O", "Na", "Cl", "C", "N", "Fe", "Cu">>
ElementNames == <<"Hidrogeno", "Oxigeno", "Sodio", "Cloro", "Carbono",
                  "Nitrogeno", "Hierro", "Cobre">>

\* an element record as served by getElements()
TableElement(i) ==
    [symbol |-> SymbolNames[i], name |-> ElementNames[i], atomic_number |-> i]

TableElements(n) == {TableElement(i) : i \in 1..n}

\* a reactant carries a symbol, or none (symbol "" is the falsy value); the
\* backend's Reaction.reactants names each element once, with its count
R1 == [id |-> 1, description |-> "desc1",
       reactants |-> <<[symbol |-> "H"], [symbol |-> ""], [symbol |-> "O"]>>]
R2 == [id |-> 2, description |-> "",
       reactants |-> <<[symbol |-> "O"]>>]

\* response bodies of POST /reactions/validate/
ValidateResults ==
    { [found |-> TRUE,  reactions |-> <<R2, R1>>, suggestions |-> <<>>],
      [found |-> FALSE, reactions |-> <<>>,       suggestions |-> <<R2, R1>>],
      [found |-> FALSE, reactions |-> <<>>,       suggestions |-> <<>>] }

\* outcomes of an HTTP call: a response body, a failed response whose body
\* carries error.message, or no response
HttpOk(data) == [status |-> "ok", data |-> data, message |-> ""]
HttpErrorMessage ==
    [status |-> "error", data |-> Null, message |-> "Elementos no validos"]
HttpNoResponse == [status |-> "failed", data |-> Null, message |-> ""]

ValidateOutcomes ==
    {HttpOk(r) : r \in ValidateResults}
        \cup {HttpErrorMessage, HttpNoResponse}

----------------------------------------------------------------------------
(* Helpers *)

Range(s) == {s[i] : i \in 1..Len(s)}

RECURSIVE WithoutSymbol(_, _)
\* Array.prototype.filter(e => e.symbol !== symbol)
WithoutSymbol(s, symbol) ==
    IF s = <<>> THEN <<>>
    ELSE IF Head(s).symbol # symbol
         THEN <<Head(s)>> \o WithoutSymbol(Tail(s), symbol)
         ELSE WithoutSymbol(Tail(s), symbol)

\* prev.some(e => e.symbol === symbol)
IsSelected(sel, symbol) == \E i \in 1..Len(sel) : sel[i].symbol = symbol

\* selectedElements.map(e => e.symbol)
SymbolsOf(sel) == [i \in 1..Len(sel) |-> sel[i].symbol]

RemoveAt(s, i) == SubSeq(s, 1, i - 1) \o SubSeq(s, i + 1, Len(s))

----------------------------------------------------------------------------
AppInit ==
    /\ selectedElements = <<>>
    /\ reaction = Null
    /\ explanation = Null
    /\ isLoading = FALSE
    /\ error = NoError
    /\ explanationLevel = "intermediate"
    /\ showReaction = FALSE
    /\ activeElement = Null
    /\ viewAtomicModel = FALSE
    /\ isLoadingExplanation = FALSE
    /\ suggestions = <<>>
    /\ inFlight = <<>>

Init ==
    /\ AppInit
    /\ tableSelectedElements = <<>>
    /\ argument = Null
    /\ returned = Null

----------------------------------------------------------------------------
(* Synchronous handlers *)

\* faulty variant of the updater: the cap compared with > instead of >=
ToggleSelection_OffByOne(prev, element) ==
    IF IsSelected(prev, element.symbol)
    THEN WithoutSymbol(prev, element.symbol)
    ELSE IF Len(prev) > MaxSelected
         THEN prev
         ELSE Append(prev, element)

\* the functional update passed to setSelectedElements in handleElementSelect
ToggleSelection(prev, element) ==
    IF IsSelected(prev, element.symbol)
    THEN WithoutSymbol(prev, element.symbol)
    ELSE IF Len(prev) >= MaxSelected
         THEN prev
         ELSE Append(prev, element)

\* a click on a cell of the periodic table or on a chip of the selection
\* faulty variant of handleElementSelect: isLoading is left alone
HandleElementSelect_KeepsLoading(element) ==
    /\ activeElement' = element
    /\ selectedElements' = ToggleSelection(selectedElements, element)
    /\ reaction' = Null
    /\ explanation' = Null
    /\ showReaction' = FALSE
    /\ viewAtomicModel' = FALSE
    /\ suggestions' = <<>>
    /\ error' = NoError
    /\ UNCHANGED <<isLoading, explanationLevel, isLoadingExplanation, inFlight>>

HandleElementSelect(element) ==
    /\ activeElement' = element
    /\ selectedElements' = ToggleSelection(selectedElements, element)
    /\ reaction' = Null
    /\ explanation' = Null
    /\ showReaction' = FALSE
    /\ viewAtomicModel' = FALSE
    /\ suggestions' = <<>>
    /\ isLoading' = FALSE
    /\ error' = NoError
    /\ UNCHANGED <<explanationLevel, isLoadingExplanation, inFlight>>

\* faulty variant of handleClear: the active element is left alone
HandleClear_KeepsActive ==
    /\ Len(selectedElements) # 0
    /\ selectedElements' = <<>>
    /\ reaction' = Null
    /\ explanation' = Null
    /\ showReaction' = FALSE
    /\ error' = NoError
    /\ viewAtomicModel' = FALSE
    /\ suggestions' = <<>>
    /\ UNCHANGED <<isLoading, explanationLevel, isLoadingExplanation,
                   inFlight, activeElement>>

\* the "Limpiar" button, disabled while the selection is empty
HandleClear ==
    /\ Len(selectedElements) # 0
    /\ selectedElements' = <<>>
    /\ reaction' = Null
    /\ explanation' = Null
    /\ showReaction' = FALSE
    /\ error' = NoError
    /\ viewAtomicModel' = FALSE
    /\ activeElement' = Null
    /\ suggestions' = <<>>
    /\ UNCHANGED <<isLoading, explanationLevel, isLoadingExplanation, inFlight>>

\* faulty variant of handleViewAtomicModel: the active element is appended
\* without looking for its symbol in the selection
HandleViewAtomicModel_NoCheck ==
    /\ activeElement # Null
    /\ selectedElements' = Append(selectedElements, activeElement)
    /\ viewAtomicModel' = TRUE
    /\ UNCHANGED <<reaction, explanation, isLoading, error, explanationLevel,
                   showReaction, activeElement, isLoadingExplanation,
                   suggestions, inFlight>>

\* the "Ver Modelo Atomico 3D" button, rendered while activeElement is set
HandleViewAtomicModel ==
    /\ activeElement # Null
    /\ selectedElements' =
          IF ~IsSelected(selectedElements, activeElement.symbol)
          THEN Append(selectedElements, activeElement)
          ELSE selectedElements
    /\ viewAtomicModel' = TRUE
    /\ UNCHANGED <<reaction, explanation, isLoading, error, explanationLevel,
                   showReaction, activeElement, isLoadingExplanation,
                   suggestions, inFlight>>

\* what ReactionViewer puts in the canvas
ReactionViewer(rx, sel, view) ==
    LET hasElements == Len(sel) > 0
        showSingleAtomModel == view /\ Len(sel) = 1
    IN  IF showSingleAtomModel
        THEN [scene |-> "AtomicModel", element |-> sel[1]]
        ELSE IF hasElements
             THEN [scene |-> "ReactionScene", element |-> Null]
             ELSE [scene |-> "SimpleAtom", element |-> Null]

\* the elements a click can name: the table's cells and the selection's chips
Clickable(n) == TableElements(n) \cup Range(selectedElements)

----------------------------------------------------------------------------
(* services/api.js: what each api function makes of the HTTP outcome *)

Returned(value) == [threw |-> FALSE, value |-> value, message |-> ""]
Threw(message) == [threw |-> TRUE, value |-> Null, message |-> message]

\* faulty variant: every failure throws the fixed message
validateReaction_FixedOnly(http) ==
    IF http.status = "ok" THEN Returned(http.data)
    ELSE Threw("Error al validar la reaccion")

\* validateReaction: the body, or an Error with the server's message when
\* the failed response carries data.error, else with a fixed message
validateReaction(http) ==
    IF http.status = "ok" THEN Returned(http.data)
    ELSE IF http.status = "error" THEN Threw(http.message)
    ELSE Threw("Error al validar la reaccion")

\* getReactionExplanation: the body, or an Error with a fixed message
getReactionExplanation(http) ==
    IF http.status = "ok" THEN Returned(http.data)
    ELSE Threw("Error al obtener la explicacion")

\* getElementExplanation: the body, or an Error with a fixed message
getElementExplanation(http) ==
    IF http.status = "ok" THEN Returned(http.data)
    ELSE Threw("Error al obtener la explicacion del elemento")

\* request payloads
ValidateRequest(symbols) ==
    [api |-> "validateReaction", elements |-> symbols,
     reaction_id |-> 0, symbol |-> "", level |-> ""]
ReactionExplanationRequest(reactionId, level) ==
    [api |-> "getReactionExplanation", elements |-> <<>>,
     reaction_id |-> reactionId, symbol |-> "", level |-> level]
ElementExplanationRequest(symbol, level) ==
    [api |-> "getElementExplanation", elements |-> <<>>,
     reaction_id |-> 0, symbol |-> symbol, level |-> level]

\* the text the AI service writes for a request
AIExplanation(request) ==
    IF request.api = "getReactionExplanation"
    THEN [kind |-> "ai", reaction_id |-> request.reaction_id,
          level |-> request.level]
    ELSE [kind |-> "aiElement", symbol |-> request.symbol,
          level |-> request.level]

\* a predefined text shown as the explanation
Text(text) == [kind |-> "text", text |-> text]

\* outcomes of an explanation request: the service answers it or fails
ExplainOutcomes(request) ==
    {HttpOk([explanation |-> AIExplanation(request)]), HttpNoResponse}

\* a message shown in the error banner, named by its template (the symbols
\* and names interpolated in it are left out)
Message(text) == [text |-> text]

----------------------------------------------------------------------------
(* Handler runs suspended at an await *)

\* request: the request in flight; level, symbols, reaction, element: the
\* values of the closure the run still reads after the await (a value it
\* reads no more is left empty); result: the body of the validation response
\* once the run has received it
Frame(handler, request, level, symbols, rx, element, result) ==
    [handler |-> handler, request |-> request, level |-> level,
     symbols |-> symbols, reaction |-> rx, element |-> element,
     result |-> result]

Awaiting(i, handler, api) ==
    /\ i \in 1..Len(inFlight)
    /\ inFlight[i].handler = handler
    /\ inFlight[i].request.api = api

----------------------------------------------------------------------------
(* handleReact *)

\* the text of the button that runs handleReact
ReactButtonLabel ==
    IF isLoading THEN "Analizando..."
    ELSE IF Len(selectedElements) = 1 THEN "Ver Reacciones"
    ELSE "Reaccionar"

\* faulty variant of the guard: an empty selection may be submitted
ReactEnabled_NoMinimum == ~isLoading

\* the button is disabled while isLoading or while the selection is empty,
\* and handleReact returns at once on an empty selection
ReactEnabled ==
    /\ ~(isLoading \/ Len(selectedElements) < 1)
    /\ ~(Len(selectedElements) < 1)

HandleReact ==
    /\ ReactEnabled
    /\ isLoading' = TRUE
    /\ error' = NoError
    /\ suggestions' = <<>>
    /\ inFlight' = Append(inFlight,
          Frame("handleReact", ValidateRequest(SymbolsOf(selectedElements)),
                explanationLevel, SymbolsOf(selectedElements),
                Null, Null, Null))
    /\ UNCHANGED <<selectedElements, reaction, explanation, explanationLevel,
                   showReaction, activeElement, viewAtomicModel,
                   isLoadingExplanation>>

\* faulty variant: handleReact reports nothing when nothing is found
NotFoundMessage_Unset == NoError

\* the message of handleReact when the backend finds nothing at all
NotFoundMessage ==
    Message("No se encontraron reacciones con {symbols} en la base de datos. Prueba con otros elementos.")

\* "result.found && result.reactions && result.reactions.length > 0"
FoundReaction(result) == result.found /\ Len(result.reactions) > 0

\* faulty variant: the last reaction found instead of the first
FirstReaction_Last(result) == result.reactions[Len(result.reactions)]

\* the reaction handleReact displays and asks the explanation of
FirstReaction(result) == result.reactions[1]

\* handleReact resumes after "await validateReaction(symbols)"
HandleReactValidated(i, http) ==
    /\ Awaiting(i, "handleReact", "validateReaction")
    /\ LET f == inFlight[i]
           r == validateReaction(http)
       IN  IF r.threw
           THEN /\ error' = Message(IF r.message # "" THEN r.message
                                    ELSE "Error al validar la reaccion. Verifica que el servidor este en ejecucion.")
                /\ isLoading' = FALSE
                /\ inFlight' = RemoveAt(inFlight, i)
                /\ UNCHANGED <<reaction, showReaction, suggestions>>
           ELSE IF FoundReaction(r.value)
           THEN /\ reaction' = FirstReaction(r.value)
                /\ showReaction' = TRUE
                /\ inFlight' = [inFlight EXCEPT ![i] =
                      Frame("handleReact",
                            ReactionExplanationRequest(
                                FirstReaction(r.value).id, f.level),
                            "", <<>>, Null, Null, r.value)]
                /\ UNCHANGED <<error, isLoading, suggestions>>
           ELSE IF Len(r.value.suggestions) > 0
           THEN /\ suggestions' = r.value.suggestions
                /\ error' = IF Len(f.symbols) = 1
                            THEN Message("Reacciones posibles con {symbol}:")
                            ELSE Message("No hay reaccion directa entre {symbols}. Mira las sugerencias:")
                /\ isLoading' = FALSE
                /\ inFlight' = RemoveAt(inFlight, i)
                /\ UNCHANGED <<reaction, showReaction>>
           ELSE /\ error' = NotFoundMessage
                /\ isLoading' = FALSE
                /\ inFlight' = RemoveAt(inFlight, i)
                /\ UNCHANGED <<reaction, showReaction, suggestions>>
    /\ UNCHANGED <<selectedElements, explanation, explanationLevel,
                   activeElement, viewAtomicModel, isLoadingExplanation>>

\* faulty variant: the description is never used
DescriptionOr_Never(rx, text) == Text(text)

\* "rx.description || text"
DescriptionOr(rx, text) ==
    IF rx.description # "" THEN Text(rx.description) ELSE Text(text)

\* handleReact resumes after "await getReactionExplanation(...)"
HandleReactExplained(i, http) ==
    /\ Awaiting(i, "handleReact", "getReactionExplanation")
    /\ LET f == inFlight[i]
           r == getReactionExplanation(http)
       IN  /\ explanation' =
                 IF r.threw
                 THEN DescriptionOr(FirstReaction(f.result),
                                    "Explicacion no disponible.")
                 ELSE r.value.explanation
    /\ isLoading' = FALSE
    /\ inFlight' = RemoveAt(inFlight, i)
    /\ UNCHANGED <<selectedElements, reaction, error, explanationLevel,
                   showReaction, activeElement, viewAtomicModel,
                   isLoadingExplanation, suggestions>>

----------------------------------------------------------------------------
(* handleGetExplanation *)

\* a level button of the "Explicacion IA" controls (disabled while
\* isLoadingExplanation) or of the ExplanationPanel selector (rendered while
\* an explanation and a reaction are shown, never disabled)
HandleGetExplanation(level) ==
    /\ reaction # Null
    /\ ~isLoadingExplanation \/ explanation # Null
    /\ isLoadingExplanation' = TRUE
    /\ explanationLevel' = level
    /\ inFlight' = Append(inFlight,
          Frame("handleGetExplanation",
                ReactionExplanationRequest(reaction.id, level),
                level, <<>>, reaction, Null, Null))
    /\ UNCHANGED <<selectedElements, reaction, explanation, isLoading, error,
                   showReaction, activeElement, viewAtomicModel, suggestions>>

\* handleGetExplanation resumes after "await getReactionExplanation(...)"
HandleGetExplanationExplained(i, http) ==
    /\ Awaiting(i, "handleGetExplanation", "getReactionExplanation")
    /\ LET f == inFlight[i]
           r == getReactionExplanation(http)
       IN  /\ explanation' =
                 IF r.threw
                 THEN DescriptionOr(f.reaction,
                                    "No se pudo obtener la explicacion.")
                 ELSE r.value.explanation
    /\ isLoadingExplanation' = FALSE
    /\ inFlight' = RemoveAt(inFlight, i)
    /\ UNCHANGED <<selectedElements, reaction, isLoading, error,
                   explanationLevel, showReaction, activeElement,
                   viewAtomicModel, suggestions>>

----------------------------------------------------------------------------
(* handleSelectSuggestion *)

\* faulty variant: a reactant without a symbol is selected as well
ElementsToSelect_All(reactants) ==
    [i \in 1..Len(reactants) |->
        [symbol |-> reactants[i].symbol, name |-> reactants[i].symbol,
         atomic_number |-> 0]]

RECURSIVE ElementsToSelect(_)
\* the simplified element objects made of the reactants that carry a symbol
\* (atomic_number 0 stands for null)
ElementsToSelect(reactants) ==
    IF reactants = <<>> THEN <<>>
    ELSE IF Head(reactants).symbol # ""
         THEN <<[symbol |-> Head(reactants).symbol,
                 name |-> Head(reactants).symbol,
                 atomic_number |-> 0]>> \o ElementsToSelect(Tail(reactants))
         ELSE ElementsToSelect(Tail(reactants))

\* a click on a button of the suggestions panel
HandleSelectSuggestion(suggestion) ==
    /\ selectedElements' = ElementsToSelect(suggestion.reactants)
    /\ reaction' = suggestion
    /\ showReaction' = TRUE
    /\ suggestions' = <<>>
    /\ error' = NoError
    /\ inFlight' = Append(inFlight,
          Frame("handleSelectSuggestion",
                ReactionExplanationRequest(suggestion.id, explanationLevel),
                explanationLevel, <<>>, suggestion, Null, Null))
    /\ UNCHANGED <<explanation, isLoading, explanationLevel, activeElement,
                   viewAtomicModel, isLoadingExplanation>>

\* handleSelectSuggestion resumes after "await getReactionExplanation(...)"
HandleSelectSuggestionExplained(i, http) ==
    /\ Awaiting(i, "handleSelectSuggestion", "getReactionExplanation")
    /\ LET f == inFlight[i]
           r == getReactionExplanation(http)
       IN  /\ explanation' =
                 IF r.threw
                 THEN DescriptionOr(f.reaction, "Explicacion no disponible.")
                 ELSE r.value.explanation
    /\ inFlight' = RemoveAt(inFlight, i)
    /\ UNCHANGED <<selectedElements, reaction, isLoading, error,
                   explanationLevel, showReaction, activeElement,
                   viewAtomicModel, isLoadingExplanation, suggestions>>

----------------------------------------------------------------------------
(* handleShowElementReactions *)

\* the "Ver Combinaciones Posibles" button, rendered while activeElement is
\* set and disabled while isLoading
HandleShowElementReactions ==
    /\ activeElement # Null
    /\ ~isLoading
    /\ isLoading' = TRUE
    /\ error' = NoError
    /\ inFlight' = Append(inFlight,
          Frame("handleShowElementReactions",
                ValidateRequest(<<activeElement.symbol>>),
                "", <<activeElement.symbol>>, Null, Null, Null))
    /\ UNCHANGED <<selectedElements, reaction, explanation, explanationLevel,
                   showReaction, activeElement, viewAtomicModel,
                   isLoadingExplanation, suggestions>>

\* handleShowElementReactions resumes after "await validateReaction(symbols)"
HandleShowElementReactionsValidated(i, http) ==
    /\ Awaiting(i, "handleShowElementReactions", "validateReaction")
    /\ LET f == inFlight[i]
           r == validateReaction(http)
       IN  IF r.threw
           THEN /\ error' = Message(IF r.message # "" THEN r.message
                                    ELSE "Error al buscar reacciones")
                /\ UNCHANGED suggestions
           ELSE IF Len(r.value.suggestions) > 0
           THEN /\ suggestions' = r.value.suggestions
                /\ error' = Message("Reacciones posibles con {name} ({symbol}):")
           ELSE IF r.value.found /\ Len(r.value.reactions) > 0
           THEN /\ suggestions' = r.value.reactions
                /\ error' = Message("Reacciones posibles con {name} ({symbol}):")
           ELSE /\ error' = Message("No se encontraron reacciones con {name} en la base de datos.")
                /\ UNCHANGED suggestions
    /\ isLoading' = FALSE
    /\ inFlight' = RemoveAt(inFlight, i)
    /\ UNCHANGED <<selectedElements, reaction, explanation, explanationLevel,
                   showReaction, activeElement, viewAtomicModel,
                   isLoadingExplanation>>

----------------------------------------------------------------------------
(* handleAnalyzeElement *)

\* the body of handleAnalyzeElement, run from a render in which the level
\* was capturedLevel
AnalyzeElement(capturedLevel) ==
    IF activeElement = Null
    THEN UNCHANGED <<isLoadingExplanation, error, reaction, suggestions,
                     inFlight>>
    ELSE /\ isLoadingExplanation' = TRUE
         /\ error' = NoError
         /\ reaction' = Null
         /\ suggestions' = <<>>
         /\ inFlight' = Append(inFlight,
               Frame("handleAnalyzeElement",
                     ElementExplanationRequest(activeElement.symbol,
                                               capturedLevel),
                     capturedLevel, <<>>, Null, Null, Null))

\* the "Analizar con IA" button, rendered while activeElement is set and
\* disabled while isLoadingExplanation
HandleAnalyzeElement ==
    /\ activeElement # Null
    /\ ~isLoadingExplanation
    /\ AnalyzeElement(explanationLevel)
    /\ UNCHANGED <<selectedElements, explanation, isLoading, explanationLevel,
                   showReaction, activeElement, viewAtomicModel>>

\* the level the element-panel selector hands to handleAnalyzeElement: the
\* handler is the closure of the current render, whose explanationLevel is
\* the one before setExplanationLevel(lvl)
LevelSeenByAnalyze(lvl) == explanationLevel

\* a level button of the element-only explanation panel (rendered while an
\* explanation is shown without a reaction, disabled while
\* isLoadingExplanation): "setExplanationLevel(lvl); handleAnalyzeElement()"
ElementLevelClick(lvl) ==
    /\ explanation # Null
    /\ reaction = Null
    /\ ~isLoadingExplanation
    /\ explanationLevel' = lvl
    /\ AnalyzeElement(LevelSeenByAnalyze(lvl))
    /\ UNCHANGED <<selectedElements, explanation, isLoading, showReaction,
                   activeElement, viewAtomicModel>>

\* handleAnalyzeElement resumes after "await getElementExplanation(...)"
HandleAnalyzeElementExplained(i, http) ==
    /\ Awaiting(i, "handleAnalyzeElement", "getElementExplanation")
    /\ LET r == getElementExplanation(http)
       IN  IF r.threw
           THEN /\ error' = Message("No se pudo obtener el analisis del elemento. Verifica que el servidor este en ejecucion.")
                /\ UNCHANGED explanation
           ELSE /\ explanation' = r.value.explanation
                /\ UNCHANGED error
    /\ isLoadingExplanation' = FALSE
    /\ inFlight' = RemoveAt(inFlight, i)
    /\ UNCHANGED <<selectedElements, reaction, isLoading, explanationLevel,
                   showReaction, activeElement, viewAtomicModel, suggestions>>

----------------------------------------------------------------------------
(* The asynchronous model: every handler of App and the settling of every  *)
(* request.  n elements are in the table and at most cap handler runs are  *)
(* suspended at a time.                                                    *)

NextOf(n, cap) ==
    \/ /\ \E element \in Clickable(n) : HandleElementSelect(element)
       /\ UNCHANGED otherVars
    \/ /\ HandleClear
       /\ UNCHANGED otherVars
    \/ /\ HandleViewAtomicModel
       /\ UNCHANGED otherVars
    \/ /\ Len(inFlight) < cap /\ HandleReact
       /\ UNCHANGED otherVars
    \/ /\ \E i \in 1..Len(inFlight), http \in ValidateOutcomes :
             HandleReactValidated(i, http)
       /\ UNCHANGED otherVars
    \/ /\ \E i \in 1..Len(inFlight) :
             \E http \in ExplainOutcomes(inFlight[i].request) :
                HandleReactExplained(i, http)
       /\ UNCHANGED otherVars
    \/ /\ Len(inFlight) < cap /\ \E level \in LevelsClicked :
             HandleGetExplanation(level)
       /\ UNCHANGED otherVars
    \/ /\ \E i \in 1..Len(inFlight) :
             \E http \in ExplainOutcomes(inFlight[i].request) :
                HandleGetExplanationExplained(i, http)
       /\ UNCHANGED otherVars
    \/ /\ Len(inFlight) < cap /\ \E idx \in 1..Len(suggestions) :
             HandleSelectSuggestion(suggestions[idx])
       /\ UNCHANGED otherVars
    \/ /\ \E i \in 1..Len(inFlight) :
             \E http \in ExplainOutcomes(inFlight[i].request) :
                HandleSelectSuggestionExplained(i, http)
       /\ UNCHANGED otherVars
    \/ /\ Len(inFlight) < cap /\ HandleShowElementReactions
       /\ UNCHANGED otherVars
    \/ /\ \E i \in 1..Len(inFlight), http \in ValidateOutcomes :
             HandleShowElementReactionsValidated(i, http)
       /\ UNCHANGED otherVars
    \/ /\ Len(inFlight) < cap /\ HandleAnalyzeElement
       /\ UNCHANGED otherVars
    \/ /\ Len(inFlight) < cap /\ \E lvl \in LevelsClicked : ElementLevelClick(lvl)
       /\ UNCHANGED otherVars
    \/ /\ \E i \in 1..Len(inFlight) :
             \E http \in ExplainOutcomes(inFlight[i].request) :
                HandleAnalyzeElementExplained(i, http)
       /\ UNCHANGED otherVars

Next == NextOf(NumElements, MaxInFlight)

Spec == Init /\ [][Next]_vars

\* the run suspended at position i of inFlight resumes
SettleAt(i) ==
    /\ i \in 1..Len(inFlight)
    /\ \/ \E http \in ValidateOutcomes :
             \/ HandleReactValidated(i, http)
             \/ HandleShowElementReactionsValidated(i, http)
       \/ \E http \in ExplainOutcomes(inFlight[i].request) :
             \/ HandleReactExplained(i, http)
             \/ HandleGetExplanationExplained(i, http)
             \/ HandleSelectSuggestionExplained(i, http)
             \/ HandleAnalyzeElementExplained(i, http)
    /\ UNCHANGED otherVars

\* every network request eventually resolves or rejects
SpecLive ==
    Init /\ [][Next]_vars /\ \A i \in 1..MaxInFlight : WF_vars(SettleAt(i))

\* the same handlers with MaxRacing runs suspended at a time
NextRace == NextOf(NumElements, MaxRacing)

SpecRace == Init /\ [][NextRace]_vars

----------------------------------------------------------------------------
(* The selection model: the periodic table, Limpiar and the atomic model *)

NextUI ==
    \/ /\ \E element \in Clickable(NumElementsUI) : HandleElementSelect(element)
       /\ UNCHANGED otherVars
    \/ /\ HandleClear
       /\ UNCHANGED otherVars
    \/ /\ HandleViewAtomicModel
       /\ UNCHANGED otherVars

SpecUI == Init /\ [][NextUI]_vars

----------------------------------------------------------------------------
(* The click model: the periodic table with handleReact and its requests,  *)
(* from the state in which the user has clicked the first four cells.  The *)
(* user goes on clicking the cells after them.                             *)

\* the state after clicks on the first MaxSelected - 1 cells of the table
InitClick ==
    /\ selectedElements = [i \in 1..(MaxSelected - 1) |-> TableElement(i)]
    /\ activeElement = TableElement(MaxSelected - 1)
    /\ reaction = Null
    /\ explanation = Null
    /\ isLoading = FALSE
    /\ error = NoError
    /\ explanationLevel = "intermediate"
    /\ showReaction = FALSE
    /\ viewAtomicModel = FALSE
    /\ isLoadingExplanation = FALSE
    /\ suggestions = <<>>
    /\ inFlight = <<>>
    /\ tableSelectedElements = <<>>
    /\ argument = Null
    /\ returned = Null

\* the cells the user clicks from there
LaterCells == {TableElement(i) : i \in MaxSelected..NumElementsUI}

NextClick ==
    \/ /\ \E element \in LaterCells : HandleElementSelect(element)
       /\ UNCHANGED otherVars
    \/ /\ HandleClear
       /\ UNCHANGED otherVars
    \/ /\ HandleViewAtomicModel
       /\ UNCHANGED otherVars
    \/ /\ Len(inFlight) < MaxInFlight /\ HandleReact
       /\ UNCHANGED otherVars
    \/ /\ \E i \in 1..Len(inFlight), http \in ValidateOutcomes :
             HandleReactValidated(i, http)
       /\ UNCHANGED otherVars
    \/ /\ \E i \in 1..Len(inFlight) :
             \E http \in ExplainOutcomes(inFlight[i].request) :
                HandleReactExplained(i, http)
       /\ UNCHANGED otherVars

SpecClick == InitClick /\ [][NextClick]_vars

----------------------------------------------------------------------------
(* data/elements.js and the static tables of the components *)

\* elementsData: the fields the table, the lookups and the atomic model
\* read; a symbol is the sequence of its letters, so that toLowerCase is
\* computed letter by letter; atomicMass is in thousandths
elementsData == <<
    [atomicNumber |-> 1, atomicMass |-> 1008, symbol |-> <<"H">>, category |-> "nonmetal", group |-> 1, period |-> 1],
    [atomicNumber |-> 2, atomicMass |-> 4003, symbol |-> <<"H", "e">>, category |-> "noble-gas", group |-> 18, period |-> 1],
    [atomicNumber |-> 3, atomicMass |-> 6941, symbol |-> <<"L", "i">>, category |-> "alkali-metal", group |-> 1, period |-> 2],
    [atomicNumber |-> 4, atomicMass |-> 9012, symbol |-> <<"B", "e">>, category |-> "alkaline-earth", group |-> 2, period |-> 2],
    [atomicNumber |-> 5, atomicMass |-> 10810, symbol |-> <<"B">>, category |-> "metalloid", group |-> 13, period |-> 2],
    [atomicNumber |-> 6, atomicMass |-> 12010, symbol |-> <<"C">>, category |-> "nonmetal", group |-> 14, period |-> 2],
    [atomicNumber |-> 7, atomicMass |-> 14010, symbol |-> <<"N">>, category |-> "nonmetal", group |-> 15, period |-> 2],
    [atomicNumber |-> 8, atomicMass |-> 16000, symbol |-> <<"O">>, category |-> "nonmetal", group |-> 16, period |-> 2],
    [atomicNumber |-> 9, atomicMass |-> 19000, symbol |-> <<"F">>, category |-> "halogen", group |-> 17, period |-> 2],
    [atomicNumber |-> 10, atomicMass |-> 20180, symbol |-> <<"N", "e">>, category |-> "noble-gas", group |-> 18, period |-> 2],
    [atomicNumber |-> 11, atomicMass |-> 22990, symbol |-> <<"N", "a">>, category |-> "alkali-metal", group |-> 1, period |-> 3],
    [atomicNumber |-> 12, atomicMass |-> 24310, symbol |-> <<"M", "g">>, category |-> "alkaline-earth", group |-> 2, period |-> 3],
    [atomicNumber |-> 13, atomicMass |-> 26980, symbol |-> <<"A", "l">>, category |-> "post-transition-metal", group |-> 13, period |-> 3],
    [atomicNumber |-> 14, atomicMass |-> 28090, symbol |-> <<"S", "i">>, category |-> "metalloid", group |-> 14, period |-> 3],
    [atomicNumber |-> 15, atomicMass |-> 30970, symbol |-> <<"P">>, category |-> "nonmetal", group |-> 15, period |-> 3],
    [atomicNumber |-> 16, atomicMass |-> 32070, symbol |-> <<"S">>, category |-> "nonmetal", group |-> 16, period |-> 3],
    [atomicNumber |-> 17, atomicMass |-> 35450, symbol |-> <<"C", "l">>, category |-> "halogen", group |-> 17, period |-> 3],
    [atomicNumber |-> 18, atomicMass |-> 39950, symbol |-> <<"A", "r">>, category |-> "noble-gas", group |-> 18, period |-> 3],
    [atomicNumber |-> 19, atomicMass |-> 39100, symbol |-> <<"K">>, category |-> "alkali-metal", group |-> 1, period |-> 4],
    [atomicNumber |-> 20, atomicMass |-> 40080, symbol |-> <<"C", "a">>, category |-> "alkaline-earth", group |-> 2, period |-> 4],
    [atomicNumber |-> 21, atomicMass |-> 44960, symbol |-> <<"S", "c">>, category |-> "transition-metal", group |-> 3, period |-> 4],
    [atomicNumber |-> 22, atomicMass |-> 47870, symbol |-> <<"T", "i">>, category |-> "transition-metal", group |-> 4, period |-> 4],
    [atomicNumber |-> 23, atomicMass |-> 50940, symbol |-> <<"V">>, category |-> "transition-metal", group |-> 5, period |-> 4],
    [atomicNumber |-> 24, atomicMass |-> 52000, symbol |-> <<"C", "r">>, category |-> "transition-metal", group |-> 6, period |-> 4],
    [atomicNumber |-> 25, atomicMass |-> 54940, symbol |-> <<"M", "n">>, category |-> "transition-metal", group |-> 7, period |-> 4],
    [atomicNumber |-> 26, atomicMass |-> 55850, symbol |-> <<"F", "e">>, category |-> "transition-metal", group |-> 8, period |-> 4],
    [atomicNumber |-> 27, atomicMass |-> 58930, symbol |-> <<"C", "o">>, category |-> "transition-metal", group |-> 9, period |-> 4],
    [atomicNumber |-> 28, atomicMass |-> 58690, symbol |-> <<"N", "i">>, category |-> "transition-metal", group |-> 10, period |-> 4],
    [atomicNumber |-> 29, atomicMass |-> 63550, symbol |-> <<"C", "u">>, category |-> "transition-metal", group |-> 11, period |-> 4],
    [atomicNumber |-> 30, atomicMass |-> 65380, symbol |-> <<"Z", "n">>, category |-> "transition-metal", group |-> 12, period |-> 4],
    [atomicNumber |-> 31, atomicMass |-> 69720, symbol |-> <<"G", "a">>, category |-> "post-transition-metal", group |-> 13, period |-> 4],
    [atomicNumber |-> 32, atomicMass |-> 72630, symbol |-> <<"G", "e">>, category |-> "metalloid", group |-> 14, period |-> 4],
    [atomicNumber |-> 33, atomicMass |-> 74920, symbol |-> <<"A", "s">>, category |-> "metalloid", group |-> 15, period |-> 4],
    [atomicNumber |-> 34, atomicMass |-> 78970, symbol |-> <<"S", "e">>, category |-> "nonmetal", group |-> 16, period |-> 4],
    [atomicNumber |-> 35, atomicMass |-> 79900, symbol |-> <<"B", "r">>, category |-> "halogen", group |-> 17, period |-> 4],
    [atomicNumber |-> 36, atomicMass |-> 83800, symbol |-> <<"K", "r">>, category |-> "noble-gas", group |-> 18, period |-> 4],
    [atomicNumber |-> 37, atomicMass |-> 85470, symbol |-> <<"R", "b">>, category |-> "alkali-metal", group |-> 1, period |-> 5],
    [atomicNumber |-> 38, atomicMass |-> 87620, symbol |-> <<"S", "r">>, category |-> "alkaline-earth", group |-> 2, period |-> 5],
    [atomicNumber |-> 39, atomicMass |-> 88910, symbol |-> <<"Y">>, category |-> "transition-metal", group |-> 3, period |-> 5],
    [atomicNumber |-> 40, atomicMass |-> 91220, symbol |-> <<"Z", "r">>, category |-> "transition-metal", group |-> 4, period |-> 5],
    [atomicNumber |-> 41, atomicMass |-> 92910, symbol |-> <<"N", "b">>, category |-> "transition-metal", group |-> 5, period |-> 5],
    [atomicNumber |-> 42, atomicMass |-> 95950, symbol |-> <<"M", "o">>, category |-> "transition-metal", group |-> 6, period |-> 5],
    [atomicNumber |-> 43, atomicMass |-> 98000, symbol |-> <<"T", "c">>, category |-> "transition-metal", group |-> 7, period |-> 5],
    [atomicNumber |-> 44, atomicMass |-> 101100, symbol |-> <<"R", "u">>, category |-> "transition-metal", group |-> 8, period |-> 5],
    [atomicNumber |-> 45, atomicMass |-> 102900, symbol |-> <<"R", "h">>, category |-> "transition-metal", group |-> 9, period |-> 5],
    [atomicNumber |-> 46, atomicMass |-> 106400, symbol |-> <<"P", "d">>, category |-> "transition-metal", group |-> 10, period |-> 5],
    [atomicNumber |-> 47, atomicMass |-> 107900, symbol |-> <<"A", "g">>, category |-> "transition-metal", group |-> 11, period |-> 5],
    [atomicNumber |-> 48, atomicMass |-> 112400, symbol |-> <<"C", "d">>, category |-> "transition-metal", group |-> 12, period |-> 5],
    [atomicNumber |-> 49, atomicMass |-> 114800, symbol |-> <<"I", "n">>, category |-> "post-transition-metal", group |-> 13, period |-> 5],
    [atomicNumber |-> 50, atomicMass |-> 118700, symbol |-> <<"S", "n">>, category |-> "post-transition-metal", group |-> 14, period |-> 5],
    [atomicNumber |-> 51, atomicMass |-> 121800, symbol |-> <<"S", "b">>, category |-> "metalloid", group |-> 15, period |-> 5],
    [atomicNumber |-> 52, atomicMass |-> 127600, symbol |-> <<"T", "e">>, category |-> "metalloid", group |-> 16, period |-> 5],
    [atomicNumber |-> 53, atomicMass |-> 126900, symbol |-> <<"I">>, category |-> "halogen", group |-> 17, period |-> 5],
    [atomicNumber |-> 54, atomicMass |-> 131300, symbol |-> <<"X", "e">>, category |-> "noble-gas", group |-> 18, period |-> 5],
    [atomicNumber |-> 55, atomicMass |-> 132900, symbol |-> <<"C", "s">>, category |-> "alkali-metal", group |-> 1, period |-> 6],
    [atomicNumber |-> 56, atomicMass |-> 137300, symbol |-> <<"B", "a">>, category |-> "alkaline-earth", group |-> 2, period |-> 6],
    [atomicNumber |-> 57, atomicMass |-> 138900, symbol |-> <<"L", "a">>, category |-> "lanthanide", group |-> 3, period |-> 6],
    [atomicNumber |-> 58, atomicMass |-> 140100, symbol |-> <<"C", "e">>, category |-> "lanthanide", group |-> 3, period |-> 6],
    [atomicNumber |-> 59, atomicMass |-> 140900, symbol |-> <<"P", "r">>, category |-> "lanthanide", group |-> 3, period |-> 6],
    [atomicNumber |-> 60, atomicMass |-> 144200, symbol |-> <<"N", "d">>, category |-> "lanthanide", group |-> 3, period |-> 6],
    [atomicNumber |-> 61, atomicMass |-> 145000, symbol |-> <<"P", "m">>, category |-> "lanthanide", group |-> 3, period |-> 6],
    [atomicNumber |-> 62, atomicMass |-> 150400, symbol |-> <<"S", "m">>, category |-> "lanthanide", group |-> 3, period |-> 6],
    [atomicNumber |-> 63, atomicMass |-> 152000, symbol |-> <<"E", "u">>, category |-> "lanthanide", group |-> 3, period |-> 6],
    [atomicNumber |-> 64, atomicMass |-> 157300, symbol |-> <<"G", "d">>, category |-> "lanthanide", group |-> 3, period |-> 6],
    [atomicNumber |-> 65, atomicMass |-> 158900, symbol |-> <<"T", "b">>, category |-> "lanthanide", group |-> 3, period |-> 6],
    [atomicNumber |-> 66, atomicMass |-> 162500, symbol |-> <<"D", "y">>, category |-> "lanthanide", group |-> 3, period |-> 6],
    [atomicNumber |-> 67, atomicMass |-> 164900, symbol |-> <<"H", "o">>, category |-> "lanthanide", group |-> 3, period |-> 6],
    [atomicNumber |-> 68, atomicMass |-> 167300, symbol |-> <<"E", "r">>, category |-> "lanthanide", group |-> 3, period |-> 6],
    [atomicNumber |-> 69, atomicMass |-> 168900, symbol |-> <<"T", "m">>, category |-> "lanthanide", group |-> 3, period |-> 6],
    [atomicNumber |-> 70, atomicMass |-> 173000, symbol |-> <<"Y", "b">>, category |-> "lanthanide", group |-> 3, period |-> 6],
    [atomicNumber |-> 71, atomicMass |-> 175000, symbol |-> <<"L", "u">>, category |-> "lanthanide", group |-> 3, period |-> 6],
    [atomicNumber |-> 72, atomicMass |-> 178500, symbol |-> <<"H", "f">>, category |-> "transition-metal", group |-> 4, period |-> 6],
    [atomicNumber |-> 73, atomicMass |-> 180900, symbol |-> <<"T", "a">>, category |-> "transition-metal", group |-> 5, period |-> 6],
    [atomicNumber |-> 74, atomicMass |-> 183800, symbol |-> <<"W">>, category |-> "transition-metal", group |-> 6, period |-> 6],
    [atomicNumber |-> 75, atomicMass |-> 186200, symbol |-> <<"R", "e">>, category |-> "transition-metal", group |-> 7, period |-> 6],
    [atomicNumber |-> 76, atomicMass |-> 190200, symbol |-> <<"O", "s">>, category |-> "transition-metal", group |-> 8, period |-> 6],
    [atomicNumber |-> 77, atomicMass |-> 192200, symbol |-> <<"I", "r">>, category |-> "transition-metal", group |-> 9, period |-> 6],
    [atomicNumber |-> 78, atomicMass |-> 195100, symbol |-> <<"P", "t">>, category |-> "transition-metal", group |-> 10, period |-> 6],
    [atomicNumber |-> 79, atomicMass |-> 197000, symbol |-> <<"A", "u">>, category |-> "transition-metal", group |-> 11, period |-> 6],
    [atomicNumber |-> 80, atomicMass |-> 200600, symbol |-> <<"H", "g">>, category |-> "transition-metal", group |-> 12, period |-> 6],
    [atomicNumber |-> 81, atomicMass |-> 204400, symbol |-> <<"T", "l">>, category |-> "post-transition-metal", group |-> 13, period |-> 6],
    [atomicNumber |-> 82, atomicMass |-> 207200, symbol |-> <<"P", "b">>, category |-> "post-transition-metal", group |-> 14, period |-> 6],
    [atomicNumber |-> 83, atomicMass |-> 209000, symbol |-> <<"B", "i">>, category |-> "post-transition-metal", group |-> 15, period |-> 6],
    [atomicNumber |-> 84, atomicMass |-> 209000, symbol |-> <<"P", "o">>, category |-> "metalloid", group |-> 16, period |-> 6],
    [atomicNumber |-> 85, atomicMass |-> 210000, symbol |-> <<"A", "t">>, category |-> "halogen", group |-> 17, period |-> 6],
    [atomicNumber |-> 86, atomicMass |-> 222000, symbol |-> <<"R", "n">>, category |-> "noble-gas", group |-> 18, period |-> 6],
    [atomicNumber |-> 87, atomicMass |-> 223000, symbol |-> <<"F", "r">>, category |-> "alkali-metal", group |-> 1, period |-> 7],
    [atomicNumber |-> 88, atomicMass |-> 226000, symbol |-> <<"R", "a">>, category |-> "alkaline-earth", group |-> 2, period |-> 7],
    [atomicNumber |-> 89, atomicMass |-> 227000, symbol |-> <<"A", "c">>, category |-> "actinide", group |-> 3, period |-> 7],
    [atomicNumber |-> 90, atomicMass |-> 232000, symbol |-> <<"T", "h">>, category |-> "actinide", group |-> 3, period |-> 7],
    [atomicNumber |-> 91, atomicMass |-> 231000, symbol |-> <<"P", "a">>, category |-> "actinide", group |-> 3, period |-> 7],
    [atomicNumber |-> 92, atomicMass |-> 238000, symbol |-> <<"U">>, category |-> "actinide", group |-> 3, period |-> 7],
    [atomicNumber |-> 93, atomicMass |-> 237000, symbol |-> <<"N", "p">>, category |-> "actinide", group |-> 3, period |-> 7],
    [atomicNumber |-> 94, atomicMass |-> 244000, symbol |-> <<"P", "u">>, category |-> "actinide", group |-> 3, period |-> 7],
    [atomicNumber |-> 95, atomicMass |-> 243000, symbol |-> <<"A", "m">>, category |-> "actinide", group |-> 3, period |-> 7],
    [atomicNumber |-> 96, atomicMass |-> 247000, symbol |-> <<"C", "m">>, category |-> "actinide", group |-> 3, period |-> 7],
    [atomicNumber |-> 97, atomicMass |-> 247000, symbol |-> <<"B", "k">>, category |-> "actinide", group |-> 3, period |-> 7],
    [atomicNumber |-> 98, atomicMass |-> 251000, symbol |-> <<"C", "f">>, category |-> "actinide", group |-> 3, period |-> 7],
    [atomicNumber |-> 99, atomicMass |-> 252000, symbol |-> <<"E", "s">>, category |-> "actinide", group |-> 3, period |-> 7],
    [atomicNumber |-> 100, atomicMass |-> 257000, symbol |-> <<"F", "m">>, category |-> "actinide", group |-> 3, period |-> 7],
    [atomicNumber |-> 101, atomicMass |-> 258000, symbol |-> <<"M", "d">>, category |-> "actinide", group |-> 3, period |-> 7],
    [atomicNumber |-> 102, atomicMass |-> 259000, symbol |-> <<"N", "o">>, category |-> "actinide", group |-> 3, period |-> 7],
    [atomicNumber |-> 103, atomicMass |-> 262000, symbol |-> <<"L", "r">>, category |-> "actinide", group |-> 3, period |-> 7],
    [atomicNumber |-> 104, atomicMass |-> 267000, symbol |-> <<"R", "f">>, category |-> "transition-metal", group |-> 4, period |-> 7],
    [atomicNumber |-> 105, atomicMass |-> 268000, symbol |-> <<"D", "b">>, category |-> "transition-metal", group |-> 5, period |-> 7],
    [atomicNumber |-> 106, atomicMass |-> 269000, symbol |-> <<"S", "g">>, category |-> "transition-metal", group |-> 6, period |-> 7],
    [atomicNumber |-> 107, atomicMass |-> 270000, symbol |-> <<"B", "h">>, category |-> "transition-metal", group |-> 7, period |-> 7],
    [atomicNumber |-> 108, atomicMass |-> 269000, symbol |-> <<"H", "s">>, category |-> "transition-metal", group |-> 8, period |-> 7],
    [atomicNumber |-> 109, atomicMass |-> 278000, symbol |-> <<"M", "t">>, category |-> "unknown", group |-> 9, period |-> 7],
    [atomicNumber |-> 110, atomicMass |-> 281000, symbol |-> <<"D", "s">>, category |-> "unknown", group |-> 10, period |-> 7],
    [atomicNumber |-> 111, atomicMass |-> 282000, symbol |-> <<"R", "g">>, category |-> "unknown", group |-> 11, period |-> 7],
    [atomicNumber |-> 112, atomicMass |-> 285000, symbol |-> <<"C", "n">>, category |-> "unknown", group |-> 12, period |-> 7],
    [atomicNumber |-> 113, atomicMass |-> 286000, symbol |-> <<"N", "h">>, category |-> "unknown", group |-> 13, period |-> 7],
    [atomicNumber |-> 114, atomicMass |-> 289000, symbol |-> <<"F", "l">>, category |-> "unknown", group |-> 14, period |-> 7],
    [atomicNumber |-> 115, atomicMass |-> 290000, symbol |-> <<"M", "c">>, category |-> "unknown", group |-> 15, period |-> 7],
    [atomicNumber |-> 116, atomicMass |-> 293000, symbol |-> <<"L", "v">>, category |-> "unknown", group |-> 16, period |-> 7],
    [atomicNumber |-> 117, atomicMass |-> 294000, symbol |-> <<"T", "s">>, category |-> "unknown", group |-> 17, period |-> 7],
    [atomicNumber |-> 118, atomicMass |-> 294000, symbol |-> <<"O", "g">>, category |-> "unknown", group |-> 18, period |-> 7] >>

\* PERIODIC_TABLE_LAYOUT: symbol -> [row, col], both counted from 0
PERIODIC_TABLE_LAYOUT ==
    (<<"H">> :> <<0, 0>>) @@ (<<"H", "e">> :> <<0, 17>>) @@ (<<"L", "i">> :> <<1, 0>>) @@
    (<<"B", "e">> :> <<1, 1>>) @@ (<<"B">> :> <<1, 12>>) @@ (<<"C">> :> <<1, 13>>) @@
    (<<"N">> :> <<1, 14>>) @@ (<<"O">> :> <<1, 15>>) @@ (<<"F">> :> <<1, 16>>) @@
    (<<"N", "e">> :> <<1, 17>>) @@ (<<"N", "a">> :> <<2, 0>>) @@ (<<"M", "g">> :> <<2, 1>>) @@
    (<<"A", "l">> :> <<2, 12>>) @@ (<<"S", "i">> :> <<2, 13>>) @@ (<<"P">> :> <<2, 14>>) @@
    (<<"S">> :> <<2, 15>>) @@ (<<"C", "l">> :> <<2, 16>>) @@ (<<"A", "r">> :> <<2, 17>>) @@
    (<<"K">> :> <<3, 0>>) @@ (<<"C", "a">> :> <<3, 1>>) @@ (<<"S", "c">> :> <<3, 2>>) @@
    (<<"T", "i">> :> <<3, 3>>) @@ (<<"V">> :> <<3, 4>>) @@ (<<"C", "r">> :> <<3, 5>>) @@
    (<<"M", "n">> :> <<3, 6>>) @@ (<<"F", "e">> :> <<3, 7>>) @@ (<<"C", "o">> :> <<3, 8>>) @@
    (<<"N", "i">> :> <<3, 9>>) @@ (<<"C", "u">> :> <<3, 10>>) @@ (<<"Z", "n">> :> <<3, 11>>) @@
    (<<"G", "a">> :> <<3, 12>>) @@ (<<"G", "e">> :> <<3, 13>>) @@ (<<"A", "s">> :> <<3, 14>>) @@
    (<<"S", "e">> :> <<3, 15>>) @@ (<<"B", "r">> :> <<3, 16>>) @@ (<<"K", "r">> :> <<3, 17>>) @@
    (<<"R", "b">> :> <<4, 0>>) @@ (<<"S", "r">> :> <<4, 1>>) @@ (<<"Y">> :> <<4, 2>>) @@
    (<<"Z", "r">> :> <<4, 3>>) @@ (<<"N", "b">> :> <<4, 4>>) @@ (<<"M", "o">> :> <<4, 5>>) @@
    (<<"T", "c">> :> <<4, 6>>) @@ (<<"R", "u">> :> <<4, 7>>) @@ (<<"R", "h">> :> <<4, 8>>) @@
    (<<"P", "d">> :> <<4, 9>>) @@ (<<"A", "g">> :> <<4, 10>>) @@ (<<"C", "d">> :> <<4, 11>>) @@
    (<<"I", "n">> :> <<4, 12>>) @@ (<<"S", "n">> :> <<4, 13>>) @@ (<<"S", "b">> :> <<4, 14>>) @@
    (<<"T", "e">> :> <<4, 15>>) @@ (<<"I">> :> <<4, 16>>) @@ (<<"X", "e">> :> <<4, 17>>) @@
    (<<"C", "s">> :> <<5, 0>>) @@ (<<"B", "a">> :> <<5, 1>>) @@ (<<"L", "a">> :> <<5, 2>>) @@
    (<<"H", "f">> :> <<5, 3>>) @@ (<<"T", "a">> :> <<5, 4>>) @@ (<<"W">> :> <<5, 5>>) @@
    (<<"R", "e">> :> <<5, 6>>) @@ (<<"O", "s">> :> <<5, 7>>) @@ (<<"I", "r">> :> <<5, 8>>) @@
    (<<"P", "t">> :> <<5, 9>>) @@ (<<"A", "u">> :> <<5, 10>>) @@ (<<"H", "g">> :> <<5, 11>>) @@
    (<<"T", "l">> :> <<5, 12>>) @@ (<<"P", "b">> :> <<5, 13>>) @@ (<<"B", "i">> :> <<5, 14>>) @@
    (<<"P", "o">> :> <<5, 15>>) @@ (<<"A", "t">> :> <<5, 16>>) @@ (<<"R", "n">> :> <<5, 17>>) @@
    (<<"F", "r">> :> <<6, 0>>) @@ (<<"R", "a">> :> <<6, 1>>) @@ (<<"A", "c">> :> <<6, 2>>) @@
    (<<"R", "f">> :> <<6, 3>>) @@ (<<"D", "b">> :> <<6, 4>>) @@ (<<"S", "g">> :> <<6, 5>>) @@
    (<<"B", "h">> :> <<6, 6>>) @@ (<<"H", "s">> :> <<6, 7>>) @@ (<<"M", "t">> :> <<6, 8>>) @@
    (<<"D", "s">> :> <<6, 9>>) @@ (<<"R", "g">> :> <<6, 10>>) @@ (<<"C", "n">> :> <<6, 11>>) @@
    (<<"N", "h">> :> <<6, 12>>) @@ (<<"F", "l">> :> <<6, 13>>) @@ (<<"M", "c">> :> <<6, 14>>) @@
    (<<"L", "v">> :> <<6, 15>>) @@ (<<"T", "s">> :> <<6, 16>>) @@ (<<"O", "g">> :> <<6, 17>>) @@
    (<<"C", "e">> :> <<8, 3>>) @@ (<<"P", "r">> :> <<8, 4>>) @@ (<<"N", "d">> :> <<8, 5>>) @@
    (<<"P", "m">> :> <<8, 6>>) @@ (<<"S", "m">> :> <<8, 7>>) @@ (<<"E", "u">> :> <<8, 8>>) @@
    (<<"G", "d">> :> <<8, 9>>) @@ (<<"T", "b">> :> <<8, 10>>) @@ (<<"D", "y">> :> <<8, 11>>) @@
    (<<"H", "o">> :> <<8, 12>>) @@ (<<"E", "r">> :> <<8, 13>>) @@ (<<"T", "m">> :> <<8, 14>>) @@
    (<<"Y", "b">> :> <<8, 15>>) @@ (<<"L", "u">> :> <<8, 16>>) @@ (<<"T", "h">> :> <<9, 3>>) @@
    (<<"P", "a">> :> <<9, 4>>) @@ (<<"U">> :> <<9, 5>>) @@ (<<"N", "p">> :> <<9, 6>>) @@
    (<<"P", "u">> :> <<9, 7>>) @@ (<<"A", "m">> :> <<9, 8>>) @@ (<<"C", "m">> :> <<9, 9>>) @@
    (<<"B", "k">> :> <<9, 10>>) @@ (<<"C", "f">> :> <<9, 11>>) @@ (<<"E", "s">> :> <<9, 12>>) @@
    (<<"F", "m">> :> <<9, 13>>) @@ (<<"M", "d">> :> <<9, 14>>) @@ (<<"N", "o">> :> <<9, 15>>) @@
    (<<"L", "r">> :> <<9, 16>>)


----------------------------------------------------------------------------
(* The multi-select PeriodicTable component (src/unnamed/part_002) *)

\* the cells the user clicks
TableCells == {elementsData[i] : i \in 1..NumTableElements}

\* faulty variant of the updater: the cap compared with > instead of >=
TableSelect_OffByOne(prev, element, isMultiSelect) ==
    IF IsSelected(prev, element.symbol)
    THEN WithoutSymbol(prev, element.symbol)
    ELSE IF isMultiSelect
         THEN IF Len(prev) > MaxTableSelected THEN prev
              ELSE Append(prev, element)
         ELSE <<element>>

\* the updater handleSelect passes to setSelectedElements
TableSelect(prev, element, isMultiSelect) ==
    IF IsSelected(prev, element.symbol)
    THEN WithoutSymbol(prev, element.symbol)
    ELSE IF isMultiSelect
         THEN IF Len(prev) >= MaxTableSelected THEN prev
              ELSE Append(prev, element)
         ELSE <<element>>

\* ElementCell.handleClick: onSelect(element, e.ctrlKey || e.metaKey)
TableHandleSelect(element, isMultiSelect) ==
    /\ tableSelectedElements' =
          TableSelect(tableSelectedElements, element, isMultiSelect)
    /\ UNCHANGED <<appVars, argument, returned>>

\* the "x" of a tag of SelectionSummary
TableHandleRemove(element) ==
    /\ tableSelectedElements' =
          WithoutSymbol(tableSelectedElements, element.symbol)
    /\ UNCHANGED <<appVars, argument, returned>>

\* "Limpiar" of SelectionSummary, rendered while the selection is not empty
TableHandleClear ==
    /\ Len(tableSelectedElements) # 0
    /\ tableSelectedElements' = <<>>
    /\ UNCHANGED <<appVars, argument, returned>>

\* The selection keeps the order in which its elements were added and no
\* guard reads that order: the user adds elements with Ctrl/Cmd in the order
\* of the table, and clicks, removes and clears freely otherwise.
InTableOrder(element) ==
    \A i \in 1..Len(tableSelectedElements) :
       tableSelectedElements[i].atomicNumber <= element.atomicNumber

NextTable ==
    \/ \E element \in TableCells : TableHandleSelect(element, FALSE)
    \/ \E element \in TableCells :
          InTableOrder(element) /\ TableHandleSelect(element, TRUE)
    \/ \E element \in Range(tableSelectedElements) :
          TableHandleSelect(element, TRUE)
    \/ \E element \in Range(tableSelectedElements) :
          TableHandleRemove(element)
    \/ TableHandleClear

SpecTable == Init /\ [][NextTable]_vars

----------------------------------------------------------------------------
(* Pure functions over the static tables, applied to an element *)

\* the value a call leaves in returned
Call(fn, value) == [fn |-> fn, value |-> value]

\* the arguments: the records of elementsData
InitData ==
    /\ AppInit
    /\ tableSelectedElements = <<>>
    /\ argument \in Range(elementsData)
    /\ returned = Null

\* faulty variant: the f-block rows start at column 0
getGridPosition_NoOffset(element) ==
    IF element.category = "lanthanide"
    THEN [row |-> 9, col |-> element.atomicNumber - 57]
    ELSE IF element.category = "actinide"
         THEN [row |-> 10, col |-> element.atomicNumber - 89]
         ELSE [row |-> element.period, col |-> element.group]

\* gridRow and gridColumn of an ElementCell, both counted from 1
getGridPosition(element) ==
    IF element.category = "lanthanide"
    THEN [row |-> 9, col |-> (element.atomicNumber - 57) + 3]
    ELSE IF element.category = "actinide"
         THEN [row |-> 10, col |-> (element.atomicNumber - 89) + 3]
         ELSE [row |-> element.period, col |-> element.group]

\* ElementCell renders the element at getGridPosition(element)
RenderElementCell ==
    /\ returned' = Call("getGridPosition", getGridPosition(argument))
    /\ UNCHANGED <<appVars, tableSelectedElements, argument>>

\* the elements getElements() resolves to: the symbols of the 118 elements
LoadedElements == [i \in 1..Len(elementsData) |-> [symbol |-> elementsData[i].symbol]]

\* "grid[pos[0]][pos[1]] = element" for each element in turn: a cell holds
\* the last element placed in it, or null; an element without a layout
\* entry is placed nowhere
GridOf(elements) ==
    [r \in 0..9 |-> [c \in 0..17 |->
        LET placed == {i \in 1..Len(elements) :
                          /\ elements[i].symbol \in DOMAIN PERIODIC_TABLE_LAYOUT
                          /\ PERIODIC_TABLE_LAYOUT[elements[i].symbol] = <<r, c>>}
        IN  IF placed = {} THEN Null
            ELSE elements[CHOOSE i \in placed : \A j \in placed : j <= i]]]

\* the cells of the grid whose button is the element's
CellsShowing(grid, symbol) ==
    {rc \in (0..9) \X (0..17) :
        /\ grid[rc[1]][rc[2]] # Null
        /\ grid[rc[1]][rc[2]].symbol = symbol}

\* the single-select PeriodicTable builds its grid and renders its buttons
RenderGrid ==
    /\ returned' = Call("grid", CellsShowing(GridOf(LoadedElements), argument.symbol))
    /\ UNCHANGED <<appVars, tableSelectedElements, argument>>

\* ELECTRON_SHELLS of ReactionViewer.jsx: atomic number -> electrons per shell
ELECTRON_SHELLS ==
    (1 :> <<1>>) @@ (2 :> <<2>>) @@ (3 :> <<2, 1>>) @@ (4 :> <<2, 2>>) @@
    (5 :> <<2, 3>>) @@ (6 :> <<2, 4>>) @@ (7 :> <<2, 5>>) @@ (8 :> <<2, 6>>) @@
    (9 :> <<2, 7>>) @@ (10 :> <<2, 8>>) @@ (11 :> <<2, 8, 1>>) @@
    (12 :> <<2, 8, 2>>) @@ (13 :> <<2, 8, 3>>) @@ (14 :> <<2, 8, 4>>) @@
    (15 :> <<2, 8, 5>>) @@ (16 :> <<2, 8, 6>>) @@ (17 :> <<2, 8, 7>>) @@
    (18 :> <<2, 8, 8>>) @@ (19 :> <<2, 8, 8, 1>>) @@ (20 :> <<2, 8, 8, 2>>) @@
    (26 :> <<2, 8, 14, 2>>) @@ (29 :> <<2, 8, 18, 1>>) @@
    (30 :> <<2, 8, 18, 2>>) @@ (47 :> <<2, 8, 18, 18, 1>>) @@
    (79 :> <<2, 8, 18, 32, 18, 1>>)

\* faulty variant: the shell capacities stop short of 118 electrons
maxPerShell_Short == <<2, 8, 18, 32, 18, 8>>

\* "const maxPerShell = [2, 8, 18, 32, 32, 18, 8]"
maxPerShell == <<2, 8, 18, 32, 32, 18, 8>>

RECURSIVE FillShells(_, _, _)
\* "for (let i = 0; i < maxPerShell.length && remaining > 0; i++)": shell i
\* takes Math.min(remaining, maxPerShell[i]) electrons
FillShells(i, remaining, shells) ==
    IF i <= Len(maxPerShell) /\ remaining > 0
    THEN LET electrons == IF remaining < maxPerShell[i] THEN remaining
                          ELSE maxPerShell[i]
         IN  FillShells(i + 1, remaining - electrons, Append(shells, electrons))
    ELSE shells

\* getElectronShells of ReactionViewer.jsx: the table entry, or the fallback
getElectronShells(atomicNumber) ==
    IF atomicNumber \in DOMAIN ELECTRON_SHELLS
    THEN ELECTRON_SHELLS[atomicNumber]
    ELSE FillShells(1, atomicNumber, <<>>)

\* getElectronShells of AtomicStructure (ExplanationPanel.jsx): no table
AtomicStructureShells(z) == FillShells(1, z, <<>>)

RECURSIVE Sum(_)
\* the electrons rendered: one ElectronParticle per electron of each shell
Sum(shells) == IF shells = <<>> THEN 0 ELSE Head(shells) + Sum(Tail(shells))

\* AtomicModel renders the shells of element.atomic_number
RenderAtomicModel ==
    /\ returned' = Call("getElectronShells", getElectronShells(argument.atomicNumber))
    /\ UNCHANGED <<appVars, tableSelectedElements, argument>>

\* AtomicStructure renders the shells of element.atomicNumber
RenderAtomicStructure ==
    /\ returned' = Call("AtomicStructure", AtomicStructureShells(argument.atomicNumber))
    /\ UNCHANGED <<appVars, tableSelectedElements, argument>>

\* Math.round of a positive value given in thousandths
Round(thousandths) == (thousandths + 500) \div 1000

\* the JavaScript value of "1 - (i / (total - 1)) * 2": a fraction, or NaN
\* for 0 / 0 and an infinity for any other division by zero
FibonacciY(i, total) ==
    IF total - 1 # 0
    THEN [kind |-> "number", num |-> (total - 1) - 2 * i, den |-> total - 1]
    ELSE IF i = 0 THEN [kind |-> "NaN", num |-> 0, den |-> 0]
         ELSE [kind |-> "-Infinity", num |-> 0, den |-> 0]

\* nucleusParticles of AtomicModel: one particle per proton and neutron, with
\* the y of its place on the unit sphere (theta and scale, which add
\* Math.random() terms, are left out)
nucleusParticles(element) ==
    LET atomicNumber == IF element.atomicNumber # 0 THEN element.atomicNumber
                        ELSE 1
        massNumber == Round(IF element.atomicMass # 0 THEN element.atomicMass
                            ELSE atomicNumber * 2 * 1000)
        neutronCount == IF massNumber - atomicNumber > 0
                        THEN massNumber - atomicNumber ELSE 0
        total == atomicNumber + neutronCount
    IN  [k \in 1..total |->
            [isProton |-> (k - 1) < atomicNumber,
             y |-> FibonacciY(k - 1, total)]]

\* AtomicModel places the particles of the nucleus
RenderNucleus ==
    /\ returned' = Call("nucleusParticles", nucleusParticles(argument))
    /\ UNCHANGED <<appVars, tableSelectedElements, argument>>

\* String.prototype.toLowerCase on the letters of a symbol
LowerCase ==
    ("A" :> "a") @@ ("B" :> "b") @@ ("C" :> "c") @@ ("D" :> "d") @@ ("E" :> "e") @@ ("F" :> "f") @@
    ("G" :> "g") @@ ("H" :> "h") @@ ("I" :> "i") @@ ("J" :> "j") @@ ("K" :> "k") @@ ("L" :> "l") @@
    ("M" :> "m") @@ ("N" :> "n") @@ ("O" :> "o") @@ ("P" :> "p") @@ ("Q" :> "q") @@ ("R" :> "r") @@
    ("S" :> "s") @@ ("T" :> "t") @@ ("U" :> "u") @@ ("V" :> "v") @@ ("W" :> "w") @@ ("X" :> "x") @@
    ("Y" :> "y") @@ ("Z" :> "z")

toLowerCase(str) ==
    [i \in 1..Len(str) |->
        IF str[i] \in DOMAIN LowerCase THEN LowerCase[str[i]] ELSE str[i]]

\* faulty variant: symbols compared by their first letter
SameSymbol_FirstLetter(a, b) == toLowerCase(a)[1] = toLowerCase(b)[1]

\* "el.symbol.toLowerCase() === symbol.toLowerCase()"
SameSymbol(a, b) == toLowerCase(a) = toLowerCase(b)

\* Array.prototype.find: the first record that matches, or undefined
Find(matches) ==
    IF matches = {} THEN Null
    ELSE elementsData[CHOOSE i \in matches : \A j \in matches : i <= j]

getElementBySymbol(symbol) ==
    Find({i \in 1..Len(elementsData) : SameSymbol(elementsData[i].symbol, symbol)})

getElementByNumber(atomicNumber) ==
    Find({i \in 1..Len(elementsData) : elementsData[i].atomicNumber = atomicNumber})

\* a lookup by the element's symbol, as written or in lower case
LookupBySymbol ==
    /\ \E symbol \in {argument.symbol, toLowerCase(argument.symbol)} :
          returned' = Call("getElementBySymbol", getElementBySymbol(symbol))
    /\ UNCHANGED <<appVars, tableSelectedElements, argument>>

LookupByNumber ==
    /\ returned' = Call("getElementByNumber", getElementByNumber(argument.atomicNumber))
    /\ UNCHANGED <<appVars, tableSelectedElements, argument>>

\* getElements: the body, or an Error with a fixed message
getElements(http) ==
    IF http.status = "ok" THEN Returned(http.data)
    ELSE Threw("No se pudieron cargar los elementos")

\* getPeriodicTable: the body, or an Error with a fixed message
getPeriodicTable(http) ==
    IF http.status = "ok" THEN Returned(http.data)
    ELSE Threw("No se pudo cargar la tabla periodica")

\* the message of getElement: a fixed text followed by the symbol asked for
ElementNotFound(symbol) == <<"No se encontro el elemento", symbol>>

\* getElement: the body, or an Error naming the symbol asked for
getElement(symbol, http) ==
    IF http.status = "ok" THEN Returned(http.data)
    ELSE Threw(ElementNotFound(symbol))

\* getReactions: the body, or an Error with a fixed message
getReactions(http) ==
    IF http.status = "ok" THEN Returned(http.data)
    ELSE Threw("No se pudieron cargar las reacciones")

\* outcomes of an api call whose response body is data: the body, a failed
\* response whose body carries error.message, or no response
ApiOutcomes(data) == <<HttpOk(data), HttpErrorMessage, HttpNoResponse>>

\* an api call: the outcome of its HTTP request and what the function did
ApiCall(http, result) == [http |-> http, result |-> result]

CallValidateReaction ==
    /\ \E http \in ValidateOutcomes :
          returned' = Call("validateReaction", ApiCall(http, validateReaction(http)))
    /\ UNCHANGED <<appVars, tableSelectedElements, argument>>

CallGetReactionExplanation ==
    /\ \E i \in DOMAIN ApiOutcomes(Null) :
          LET http == ApiOutcomes([explanation |-> Text("explanation")])[i] IN
          returned' = Call("getReactionExplanation",
                           ApiCall(http, getReactionExplanation(http)))
    /\ UNCHANGED <<appVars, tableSelectedElements, argument>>

CallGetElementExplanation ==
    /\ \E i \in DOMAIN ApiOutcomes(Null) :
          LET http == ApiOutcomes([explanation |-> Text("explanation")])[i] IN
          returned' = Call("getElementExplanation",
                           ApiCall(http, getElementExplanation(http)))
    /\ UNCHANGED <<appVars, tableSelectedElements, argument>>

CallGetElements ==
    /\ \E i \in DOMAIN ApiOutcomes(Null) :
          LET http == ApiOutcomes(LoadedElements)[i] IN
          returned' = Call("getElements", ApiCall(http, getElements(http)))
    /\ UNCHANGED <<appVars, tableSelectedElements, argument>>

CallGetPeriodicTable ==
    /\ \E i \in DOMAIN ApiOutcomes(Null) :
          LET http == ApiOutcomes(LoadedElements)[i] IN
          returned' = Call("getPeriodicTable", ApiCall(http, getPeriodicTable(http)))
    /\ UNCHANGED <<appVars, tableSelectedElements, argument>>

\* getElement(symbol) is asked for the symbol of the argument
CallGetElement ==
    /\ \E i \in DOMAIN ApiOutcomes(Null) :
          LET http == ApiOutcomes([symbol |-> argument.symbol])[i] IN
          returned' = Call("getElement",
                           ApiCall(http, getElement(argument.symbol, http)))
    /\ UNCHANGED <<appVars, tableSelectedElements, argument>>

CallGetReactions ==
    /\ \E i \in DOMAIN ApiOutcomes(Null) :
          LET http == ApiOutcomes(<<R2, R1>>)[i] IN
          returned' = Call("getReactions", ApiCall(http, getReactions(http)))
    /\ UNCHANGED <<appVars, tableSelectedElements, argument>>

NextApi ==
    \/ CallValidateReaction
    \/ CallGetReactionExplanation
    \/ CallGetElementExplanation
    \/ CallGetElements
    \/ CallGetPeriodicTable
    \/ CallGetElement
    \/ CallGetReactions

\* the calls of the api functions, getElement being asked for the symbol of
\* each element
SpecApi == InitData /\ [][NextApi]_vars

NextData ==
    \/ RenderElementCell
    \/ RenderGrid
    \/ RenderAtomicModel
    \/ RenderAtomicStructure
    \/ RenderNucleus
    \/ LookupBySymbol
    \/ LookupByNumber

SpecData == InitData /\ [][NextData]_vars

----------------------------------------------------------------------------
(* Properties *)

\* the request a handler has just issued: the last frame of inFlight
Issued == inFlight'[Len(inFlight')].request

\* the reaction of the backend with a given id
ReactionById(id) == CHOOSE rx \in {R1, R2} : rx.id = id

\* C1 (as stated): a click on an element toggles its selection, whatever the
\* selection: an unselected element becomes selected, a selected one becomes
\* unselected.
C1_ClickTogglesAlways ==
    [][\A element \in Clickable(NumElementsUI) :
          HandleElementSelect(element) =>
             (IsSelected(selectedElements', element.symbol)
                 <=> ~IsSelected(selectedElements, element.symbol))]_vars

\* C1 (amended): a click on a selected element makes it unselected; a click
\* on an unselected element makes it selected, as the last of the selection,
\* when fewer than 5 elements are selected, and leaves the selection as it is
\* when 5 or more are.
C1_ClickTogglesBelowCap ==
    [][\A element \in Clickable(NumElementsUI) :
          HandleElementSelect(element) =>
             IF \E i \in 1..Len(selectedElements) :
                   selectedElements[i].symbol = element.symbol
             THEN \A i \in 1..Len(selectedElements') :
                     selectedElements'[i].symbol # element.symbol
             ELSE IF Len(selectedElements) < 5
                  THEN selectedElements' = selectedElements \o <<element>>
                  ELSE selectedElements' = selectedElements]_vars

\* C1 witness: the click on a sixth element was turned down: it is the active
\* element, it is not selected, and 5 elements are.
C1_Witness ==
    /\ Len(selectedElements) = 5
    /\ activeElement # Null
    /\ ~IsSelected(selectedElements, activeElement.symbol)
    /\ ~viewAtomicModel

\* C2: selectedElements never holds more than 5 elements.
C2_AtMostFiveSelected == Len(selectedElements) <= 5

\* C3 (as stated): once handleReact has handled the validation response,
\* reaction is a reaction record or suggestions is a non-empty list.
C3_ReactionOrSuggestions ==
    [][\A i \in 1..Len(inFlight), http \in ValidateOutcomes :
          HandleReactValidated(i, http) =>
             (reaction' # Null \/ suggestions' # <<>>)]_vars

\* C3 (amended): once handleReact has handled the validation response,
\* reaction is a reaction record, or suggestions is a non-empty list, or an
\* error message is set.
C3_ReactionSuggestionsOrError ==
    [][\A i \in 1..Len(inFlight), http \in ValidateOutcomes :
          HandleReactValidated(i, http) =>
             (reaction' # Null \/ suggestions' # <<>> \/ error' # Null)]_vars

\* C3 witness: handleReact has ended with neither a reaction nor suggestions:
\* its "nothing found" message is on display.
C3_Witness ==
    /\ error = Message("No se encontraron reacciones con {symbols} en la base de datos. Prueba con otros elementos.")
    /\ reaction = Null
    /\ suggestions = <<>>
    /\ inFlight = <<>>

\* C4 (as stated): the button of handleReact sends a validation request only
\* when at least 2 elements are selected.
C4_ReactNeedsTwo ==
    [][HandleReact =>
          /\ Issued.api = "validateReaction"
          /\ Len(Issued.elements) >= 2]_vars

\* C4 (amended): the button of handleReact sends a validation request only
\* when at least 1 element is selected, and the request carries the symbols
\* of the selection; the button reads "Reaccionar" only when the selection
\* does not hold exactly 1 element, so that a request sent under that label
\* carries at least 2 symbols.
C4_ReactNeedsOne ==
    [][HandleReact =>
          /\ Issued.api = "validateReaction"
          /\ Len(Issued.elements) >= 1
          /\ Len(Issued.elements) = Len(selectedElements)
          /\ \A k \in 1..Len(selectedElements) :
                Issued.elements[k] = selectedElements[k].symbol
          /\ ReactButtonLabel = "Reaccionar" => Len(Issued.elements) >= 2]_vars

\* C4 witness: a validation request of handleReact is in flight with a
\* single symbol.
C4_Witness ==
    \E i \in 1..Len(inFlight) :
       /\ Awaiting(i, "handleReact", "validateReaction")
       /\ Len(inFlight[i].request.elements) = 1

\* C5: at most one request is in flight.
C5_OneRequestInFlight == Len(inFlight) <= 1

\* the runs of handleReact that await an explanation
ReactExplaining(frames) ==
    {i \in 1..Len(frames) :
        /\ frames[i].handler = "handleReact"
        /\ frames[i].request.api = "getReactionExplanation"}

\* C6: a run of handleReact has an explanation request in flight only after
\* its validation response has arrived, found, with a non-empty reactions
\* list, and the request names the first entry of that list; the step that
\* issues the request is the one that handles the validation response, and
\* it displays that first entry.
C6_ExplainsFirstFound ==
    /\ [](\A i \in ReactExplaining(inFlight) :
             /\ inFlight[i].result # Null
             /\ inFlight[i].result.found
             /\ Len(inFlight[i].result.reactions) > 0
             /\ inFlight[i].request.reaction_id
                   = inFlight[i].result.reactions[1].id)
    /\ [][Cardinality(ReactExplaining(inFlight'))
             > Cardinality(ReactExplaining(inFlight)) =>
          \E i \in 1..Len(inFlight) :
             /\ Awaiting(i, "handleReact", "validateReaction")
             /\ Len(inFlight') = Len(inFlight)
             /\ i \in ReactExplaining(inFlight')
             /\ reaction' = inFlight'[i].result.reactions[1]]_vars

\* C6 witness: handleReact awaits the explanation of the first of two
\* reactions found, which is the one displayed.
C6_Witness ==
    \E i \in ReactExplaining(inFlight) :
       /\ Len(inFlight[i].result.reactions) = 2
       /\ inFlight[i].result.reactions[1] # inFlight[i].result.reactions[2]
       /\ reaction = inFlight[i].result.reactions[1]

\* C7: when the explanation request of handleReact, handleGetExplanation or
\* handleSelectSuggestion fails, the explanation becomes the description of
\* the reaction the request was about, or a fixed text when that reaction has
\* no description; the step changes neither reaction nor error.
C7_FallbackOnFailure ==
    [][\A i \in 1..Len(inFlight) :
          (\/ HandleReactExplained(i, HttpNoResponse)
           \/ HandleGetExplanationExplained(i, HttpNoResponse)
           \/ HandleSelectSuggestionExplained(i, HttpNoResponse)) =>
             LET rx == ReactionById(inFlight[i].request.reaction_id)
             IN  /\ explanation'.kind = "text"
                 /\ IF rx.description # ""
                    THEN explanation'.text = rx.description
                    ELSE explanation'.text \in
                            {"Explicacion no disponible.",
                             "No se pudo obtener la explicacion."}
                 /\ reaction' = reaction
                 /\ error' = error]_vars

\* C7 witness: a reaction is displayed with its predefined description as the
\* explanation and no error.
C7_Witness ==
    /\ reaction # Null
    /\ reaction.description # ""
    /\ explanation = Text(reaction.description)
    /\ error = Null

\* C8: after "Ver Modelo Atomico 3D" the viewer displays the atomic model of
\* the active element.
C8_ViewerShowsActiveElement ==
    [][HandleViewAtomicModel =>
          ReactionViewer(reaction', selectedElements', viewAtomicModel')
             = [scene |-> "AtomicModel", element |-> activeElement]]_vars

\* C9: "Limpiar" leaves an empty selection, no reaction, no explanation, no
\* error, no suggestions, no active element and the atomic-model view off,
\* and leaves explanationLevel as it was.
C9_ClearResets ==
    [][HandleClear =>
          /\ selectedElements' = <<>>
          /\ reaction' = Null
          /\ explanation' = Null
          /\ error' = Null
          /\ suggestions' = <<>>
          /\ activeElement' = Null
          /\ viewAtomicModel' = FALSE
          /\ explanationLevel' = explanationLevel]_vars

\* C9 witness: the state "Limpiar" leaves after the user had chosen another
\* level than the initial one.
C9_Witness ==
    /\ selectedElements = <<>>
    /\ activeElement = Null
    /\ reaction = Null
    /\ explanation = Null
    /\ error = Null
    /\ suggestions = <<>>
    /\ ~viewAtomicModel
    /\ explanationLevel = "basic"

\* C10: a click on level L requests the explanation at level L: of the
\* active element in the element-analysis panel, of the reaction displayed in
\* the reaction panel.
C10_RequestsChosenLevel ==
    [][\A L \in LevelsClicked :
          /\ (ElementLevelClick(L) /\ activeElement # Null) =>
                Issued = ElementExplanationRequest(activeElement.symbol, L)
          /\ HandleGetExplanation(L) =>
                Issued = ReactionExplanationRequest(reaction.id, L)]_vars

\* C11: the selection of the multi-select PeriodicTable never holds more
\* than 10 elements and never holds two elements with the same symbol,
\* after any sequence of clicks, Ctrl/Cmd-clicks, removals and clears.
C11_TableSelectionBounded ==
    /\ Len(tableSelectedElements) <= MaxTableSelected
    /\ \A i, j \in 1..Len(tableSelectedElements) :
          i # j => tableSelectedElements[i].symbol # tableSelectedElements[j].symbol

\* the selection is full, and holds an element that is not the first cell
C11_Witness ==
    /\ Len(tableSelectedElements) = MaxTableSelected
    /\ tableSelectedElements[1].atomicNumber # 1

\* C12: every element is given a cell of the 10 x 18 grid and no two elements
\* the same cell, by getGridPosition over elementsData and by
\* PERIODIC_TABLE_LAYOUT in the grid of the single-select table.
C12_EveryElementHasItsCell ==
    /\ (returned # Null /\ returned.fn = "getGridPosition") =>
          /\ returned.value.row \in 1..10
          /\ returned.value.col \in 1..18
          /\ \A i \in 1..Len(elementsData) :
                elementsData[i] # argument =>
                   getGridPosition(elementsData[i]) # returned.value
    /\ (returned # Null /\ returned.fn = "grid") =>
          Cardinality(returned.value) = 1

\* a lanthanide has been placed by getGridPosition
C12_Witness ==
    /\ returned # Null
    /\ returned.fn = "getGridPosition"
    /\ argument.category = "lanthanide"
    /\ returned.value = [row |-> 9, col |-> 3]

\* C13: for every atomic number Z from 1 to 118 the shells returned by
\* getElectronShells (the table entry or the fallback) sum to exactly Z, the
\* number of electrons the legend shows.
C13_ShellsSumToAtomicNumber ==
    (returned # Null /\ returned.fn \in {"getElectronShells", "AtomicStructure"}) =>
       Sum(returned.value) = argument.atomicNumber

\* the fallback has filled all seven shells for Z = 118
C13_Witness ==
    /\ returned # Null
    /\ returned.fn = "getElectronShells"
    /\ argument.atomicNumber = 118
    /\ Len(returned.value) = 7

\* C14: no two records of elementsData share a symbol (compared without
\* case) or an atomic number, so getElementBySymbol(e.symbol) and
\* getElementByNumber(e.atomicNumber) return e for every record e.
C14_KeyedBySymbol ==
    /\ \A i \in 1..Len(elementsData) :
          elementsData[i] # argument =>
             /\ ~SameSymbol(elementsData[i].symbol, argument.symbol)
             /\ elementsData[i].atomicNumber # argument.atomicNumber
    /\ (returned # Null /\ returned.fn \in {"getElementBySymbol", "getElementByNumber"}) =>
          returned.value = argument

\* helium, whose symbol starts like hydrogen's, has been looked up by symbol
C14_Witness ==
    /\ returned # Null
    /\ returned.fn = "getElementBySymbol"
    /\ argument.symbol = <<"H", "e">>
    /\ returned.value.atomicNumber = 2

\* a step in which a suspended handler run resumes
Settles == inFlight' # inFlight /\ Len(inFlight') <= Len(inFlight)

\* the only run suspended is a handleReact that an element click (isLoading
\* is false again) or Limpiar (the selection is empty) has followed
SupersededSubmission ==
    /\ Len(inFlight) = 1
    /\ inFlight[1].handler = "handleReact"
    /\ ~isLoading \/ selectedElements = <<>>

\* C15: once the user clicks an element or presses Limpiar, reaction and
\* explanation stay null when a request started before that completes.
C15_NoSupersededResult ==
    [][(SupersededSubmission /\ Settles /\ reaction = Null /\ explanation = Null)
          => (reaction' = Null /\ explanation' = Null)]_vars

\* C16: every element click, whether it adds, removes or is turned down by
\* the cap, makes the clicked element the active one, resets reaction and
\* explanation to null, showReaction and viewAtomicModel to false,
\* suggestions to empty, error to null and isLoading to false, and leaves
\* explanationLevel as it is.
C16_ClickResets ==
    [][\A element \in LaterCells :
          HandleElementSelect(element) =>
             /\ activeElement' = element
             /\ reaction' = Null
             /\ explanation' = Null
             /\ showReaction' = FALSE
             /\ viewAtomicModel' = FALSE
             /\ suggestions' = <<>>
             /\ error' = NoError
             /\ isLoading' = FALSE
             /\ explanationLevel' = explanationLevel]_vars

\* a click turned down by the cap (5 selected, the active element not among
\* them) has followed a submission that is still awaiting its response
C16_Witness ==
    /\ Len(selectedElements) = MaxSelected
    /\ activeElement # Null
    /\ ~IsSelected(selectedElements, activeElement.symbol)
    /\ inFlight # <<>>
    /\ ~isLoading
    /\ reaction = Null

\* C17: whenever an explanation is displayed while reaction is null, it is
\* the element analysis returned for the current activeElement; so a failed
\* "Analizar con IA" request leaves no explanation of another subject.
C17_ElementPanelShowsItsAnalysis ==
    (explanation # Null /\ reaction = Null) =>
       /\ activeElement # Null
       /\ explanation.kind = "aiElement"
       /\ explanation.symbol = activeElement.symbol

\* no run is suspended at a request for an explanation
NoExplanationInFlight ==
    \A i \in 1..Len(inFlight) :
       inFlight[i].request.api \notin {"getReactionExplanation", "getElementExplanation"}

\* C18: whenever no explanation request is in flight and a reaction
\* explanation obtained from the AI is displayed, it is the explanation
\* returned for the highlighted explanationLevel and the displayed reaction.
C18_ExplanationMatchesLevel ==
    (NoExplanationInFlight /\ reaction # Null /\ explanation.kind = "ai") =>
       /\ explanation.level = explanationLevel
       /\ explanation.reaction_id = reaction.id

\* the runs whose request was started with setIsLoading(true), and with
\* setIsLoadingExplanation(true)
SetIsLoading(frame) ==
    frame.handler \in {"handleReact", "handleShowElementReactions"}
SetIsLoadingExplanation(frame) ==
    frame.handler \in {"handleGetExplanation", "handleAnalyzeElement"}

\* C19: if every request eventually resolves or rejects, isLoading and
\* isLoadingExplanation become false again and again, and neither flag is
\* false while a request that set it is still in flight.
C19_LoadingFlagsFollowRequests ==
    /\ []<>(~isLoading)
    /\ []<>(~isLoadingExplanation)
    /\ [](\A i \in 1..Len(inFlight) :
             /\ SetIsLoading(inFlight[i]) => isLoading
             /\ SetIsLoadingExplanation(inFlight[i]) => isLoadingExplanation)

\* the reactants of a suggestion that carry a symbol, in order
WithSymbol(reactants) == SelectSeq(reactants, LAMBDA r : r.symbol # "")

\* C20: selecting a suggestion replaces the selection with exactly the
\* suggestion's reactants that carry a symbol, in order, sets reaction to the
\* suggestion with showReaction true, empties suggestions and error, and
\* leaves activeElement, viewAtomicModel and explanationLevel as they are.
C20_SuggestionReplacesSelection ==
    [][\A idx \in 1..Len(suggestions) :
          HandleSelectSuggestion(suggestions[idx]) =>
             /\ SymbolsOf(selectedElements') =
                   SymbolsOf(WithSymbol(suggestions[idx].reactants))
             /\ reaction' = suggestions[idx]
             /\ showReaction' = TRUE
             /\ suggestions' = <<>>
             /\ error' = NoError
             /\ UNCHANGED <<activeElement, viewAtomicModel, explanationLevel>>]_vars

\* the suggestion with a reactant without symbol has been selected, and its
\* explanation is awaited
C20_Witness ==
    /\ reaction = R1
    /\ SymbolsOf(selectedElements) = <<"H", "O">>
    /\ showReaction
    /\ suggestions = <<>>
    /\ \E i \in 1..Len(inFlight) : inFlight[i].handler = "handleSelectSuggestion"

C22_NucleusPlacementDefined ==
    (returned # Null /\ returned.fn = "nucleusParticles" /\ Len(returned.value) > 0) =>
       /\ Len(returned.value) - 1 # 0
       /\ \A k \in 1..Len(returned.value) : returned.value[k].y.kind = "number"

\* the message an api function throws when the failure carries no message of
\* the server that the function passes on
FixedMessage(fn) ==
    CASE fn = "validateReaction"       -> "Error al validar la reaccion"
      [] fn = "getReactionExplanation" -> "Error al obtener la explicacion"
      [] fn = "getElementExplanation"  -> "Error al obtener la explicacion del elemento"
      [] fn = "getElements"            -> "No se pudieron cargar los elementos"
      [] fn = "getPeriodicTable"       -> "No se pudo cargar la tabla periodica"
      [] fn = "getElement"             -> ElementNotFound(argument.symbol)
      [] fn = "getReactions"           -> "No se pudieron cargar las reacciones"

ApiFunctions ==
    {"validateReaction", "getReactionExplanation", "getElementExplanation",
     "getElements", "getPeriodicTable", "getElement", "getReactions"}

\* C23: validateReaction returns the response body or throws an Error that
\* carries the server's error message when the failed response contains
\* data.error and its fixed text otherwise; every other api function throws
\* its own message on any failure and returns no value on failure.
C23_ApiReturnsBodyOrThrows ==
    (returned # Null /\ returned.fn \in ApiFunctions) =>
        LET http == returned.value.http
            result == returned.value.result
        IN  IF http.status = "ok"
            THEN result = Returned(http.data)
            ELSE /\ result.threw
                 /\ result = Threw(IF returned.fn = "validateReaction"
                                      /\ http.status = "error"
                                   THEN http.message
                                   ELSE FixedMessage(returned.fn))

\* validateReaction has thrown the server's message of a failed response
C23_Witness ==
    /\ returned # Null
    /\ returned.fn = "validateReaction"
    /\ returned.value.http = HttpErrorMessage
    /\ returned.value.result.threw
    /\ returned.value.result.message = HttpErrorMessage.message

====
